---- MODULE Spec2Model ----
(***************************************************************************)
(* House price inference service (src/app.py): the inference-time data     *)
(* contract prediccion_o_inferencia and the three request handlers         *)
(* /predict, /download and /api around the shared file temp_results.csv.   *)
(***************************************************************************)
EXTENDS Integers, Sequences, FiniteSets, TLC

\* fs              the files of the working directory the handlers use
\* req, resp       the last request handled and the response it got
\* pipelineCalled  whether that request reached pipeline.predict
\* hasRun, latest  history: the clients with a successful /predict run, and
\*                 the client and the result set of the latest such run
\* call            a direct call of prediccion_o_inferencia and what it returned
VARIABLES fs, req, resp, pipelineCalled, hasRun, latest, call

vars == <<fs, req, resp, pipelineCalled, hasRun, latest, call>>

(***************************************************************************)
(* Bounds of the model.                                                    *)
(***************************************************************************)
\* rows of an arbitrary record set handed to prediccion_o_inferencia
MaxRows == 2
\* rows an uploaded file has beyond the preview's limit
ExtraRows == 1
\* rows of a mid-sized uploaded file
SomeRows == 5

(***************************************************************************)
(* configuraciones/config.py: the feature configuration.                   *)
(***************************************************************************)
FEATURES == <<"MSSubClass", "LotArea", "BsmtQual", "FireplaceQu", "LotFrontage">>

CATEGORICAL_VARS_WITH_NA_FREQUENT == <<"BsmtQual">>

CATEGORICAL_VARS_WITH_NA_MISSING == <<"FireplaceQu">>

NUMERICAL_VARS_WITH_NA == <<"LotFrontage">>

(***************************************************************************)
(* Sequences.                                                              *)
(***************************************************************************)
Range(s) == {s[i] : i \in DOMAIN s}

Min2(a, b) == IF a <= b THEN a ELSE b

RECURSIVE SumSeq(_)
SumSeq(s) == IF s = <<>> THEN 0 ELSE Head(s) + SumSeq(Tail(s))

RECURSIVE MinSeq(_)
MinSeq(s) == IF Len(s) = 1 THEN s[1] ELSE Min2(s[1], MinSeq(Tail(s)))

RECURSIVE MaxSeq(_)
MaxSeq(s) ==
    IF Len(s) = 1 THEN s[1]
    ELSE LET m == MaxSeq(Tail(s)) IN IF s[1] >= m THEN s[1] ELSE m

(***************************************************************************)
(* Cells and data frames.  A cell is missing (NaN), an int64, a string     *)
(* (v is the code of the category level) or a Python int held in an        *)
(* object column.  A data frame is its column labels in order and its      *)
(* rows in order; a row keeps its index label, as a pandas row does.       *)
(***************************************************************************)
NA == [t |-> "nan", v |-> 0]

IntCell(n) == [t |-> "int", v |-> n]

StrCell(k) == [t |-> "str", v |-> k]

IsNull(c) == c.t = "nan"

DropColumn(df, name) ==
    [columns |-> SelectSeq(df.columns, LAMBDA c : c # name),
     rows |-> [i \in DOMAIN df.rows |->
                 [idx |-> df.rows[i].idx,
                  cells |-> [c \in (DOMAIN df.rows[i].cells) \ {name} |->
                               df.rows[i].cells[c]]]]]

\* Series.astype('O'): every value is kept as a Python object; NaN stays NaN
AsTypeObject(c) == IF c.t = "int" THEN [t |-> "obj", v |-> c.v] ELSE c

\* df[name] = values: the column replaced, or appended when it is new
SetColumn(df, name, values) ==
    [columns |-> IF name \in Range(df.columns) THEN df.columns
                 ELSE Append(df.columns, name),
     rows |-> [i \in DOMAIN df.rows |->
                 [idx |-> df.rows[i].idx,
                  cells |-> [c \in (DOMAIN df.rows[i].cells) \cup {name} |->
                               IF c = name THEN values[i]
                               ELSE df.rows[i].cells[c]]]]]

\* df[labels]: the listed columns, in the order listed
SelectColumns(df, labels) ==
    [columns |-> labels,
     rows |-> [i \in DOMAIN df.rows |->
                 [idx |-> df.rows[i].idx,
                  cells |-> [c \in Range(labels) |-> df.rows[i].cells[c]]]]]

\* df[var].isnull().sum()
NullCount(df, var) == Cardinality({i \in DOMAIN df.rows : IsNull(df.rows[i].cells[var])})

\* df.dropna(subset=...): how='any', the rows kept in order with their labels
DropNa(df, subset) ==
    [columns |-> df.columns,
     rows |-> SelectSeq(df.rows,
                LAMBDA r : \A c \in Range(subset) : ~IsNull(r.cells[c]))]

(***************************************************************************)
(* Exceptions.  str(e) is the message a handler shows: the text and the    *)
(* column labels it quotes.                                                *)
(***************************************************************************)
NoExc == [type |-> "none", text |-> "", names |-> <<>>]

\* df['MSSubClass'] on a frame without the column: KeyError('MSSubClass')
KeyErrorLabel(name) == [type |-> "KeyError", text |-> "key", names |-> <<name>>]

\* df[labels] with labels absent: KeyError("[...] not in index")
KeyErrorNotInIndex(names) == [type |-> "KeyError", text |-> "not in index", names |-> names]

\* pd.read_csv on a file that is no table
ParserError == [type |-> "ParserError", text |-> "Error tokenizing data", names |-> <<>>]

\* the fitted pipeline rejecting a batch
PipelineError == [type |-> "PipelineError", text |-> "pipeline predict failed", names |-> <<>>]

\* ndarray.min() / ndarray.max() of an empty array
ZeroSizeError ==
    [type |-> "ValueError",
     text |-> "zero-size array to reduction operation which has no identity",
     names |-> <<>>]

StrOfExc(e) == [text |-> e.text, names |-> e.names]

(***************************************************************************)
(* The fitted pipeline precio_casas_pipeline.joblib and numpy.  A          *)
(* prediction is a float on the log scale, here a whole number p standing  *)
(* for p.0; a real-unit value is a float in units of 10^-7.                *)
(***************************************************************************)
Score(row) == row.cells["LotArea"].v % 3

\* pipeline.predict: one value per row of the batch, in row order
PipelinePredict(df) == [i \in DOMAIN df.rows |-> Score(df.rows[i])]

\* np.exp, elementwise
NpExp(p) ==
    CASE p = 0 -> 10000000
      [] p = 1 -> 27182818
      [] p = 2 -> 73890561

(***************************************************************************)
(* prediccion_o_inferencia (src/app.py:21-46).  pipelineFails is whether   *)
(* the pipeline raises on this batch.                                      *)
(***************************************************************************)
ExpectedNa ==
    CATEGORICAL_VARS_WITH_NA_FREQUENT \o CATEGORICAL_VARS_WITH_NA_MISSING
        \o NUMERICAL_VARS_WITH_NA

Raised(e, invoked) ==
    [exc |-> e, invoked |-> invoked, predicciones |-> <<>>,
     predicciones_sin_escalar |-> <<>>, datos |-> [columns |-> <<>>, rows |-> <<>>]]

DropId(df) == IF "Id" \in Range(df.columns) THEN DropColumn(df, "Id") ELSE df

CastMSSubClass(df) ==
    SetColumn(df, "MSSubClass",
        [i \in DOMAIN df.rows |-> AsTypeObject(df.rows[i].cells["MSSubClass"])])

SelectAllColumns(df) == df

SelectFeatures(df) == SelectColumns(df, FEATURES)

NewVarsNone(df) == <<>>

NewVarsAnyNa(df) == SelectSeq(FEATURES, LAMBDA var : NullCount(df, var) > 0)

new_vars_with_na(df) ==
    SelectSeq(FEATURES,
        LAMBDA var : var \notin Range(ExpectedNa) /\ NullCount(df, var) > 0)

prediccion_o_inferencia(pipelineFails, datos_de_test) ==
    LET d1 == DropId(datos_de_test)
        absent == SelectSeq(FEATURES, LAMBDA f : f \notin Range(d1.columns))
    IN  IF "MSSubClass" \notin Range(d1.columns)
        THEN Raised(KeyErrorLabel("MSSubClass"), FALSE)
        ELSE IF absent # <<>>
        THEN Raised(KeyErrorNotInIndex(absent), FALSE)
        ELSE LET d3 == SelectFeatures(CastMSSubClass(d1))
                 d4 == DropNa(d3, new_vars_with_na(d3))
                 predicciones == PipelinePredict(d4)
             IN  IF pipelineFails
                 THEN Raised(PipelineError, TRUE)
                 ELSE [exc |-> NoExc, invoked |-> TRUE,
                       predicciones |-> predicciones,
                       predicciones_sin_escalar |->
                           [i \in DOMAIN predicciones |-> NpExp(predicciones[i])],
                       datos |-> d4]

(***************************************************************************)
(* Rendering.  DataFrame.to_csv writes a missing value as the empty field  *)
(* and a float with every digit; DataFrame.to_html writes a missing value  *)
(* as NaN and a float with six decimals.  index=False: no row labels.      *)
(***************************************************************************)
FloatCell(x) == [t |-> "float", v |-> x]

CsvField(c) ==
    CASE c.t = "nan" -> [k |-> "empty", v |-> 0]
      [] c.t = "str" -> [k |-> "text", v |-> c.v]
      [] c.t = "float" -> [k |-> "float", v |-> c.v]
      [] OTHER -> [k |-> "integer", v |-> c.v]

Round6(x) == (x + 5) \div 10

HtmlField(c) ==
    CASE c.t = "nan" -> [k |-> "NaN", v |-> 0]
      [] c.t = "str" -> [k |-> "text", v |-> c.v]
      [] c.t = "float" -> [k |-> "float6", v |-> Round6(c.v)]
      [] OTHER -> [k |-> "integer", v |-> c.v]

\* the cells of row i in column order
CellsOf(df, i) == [j \in DOMAIN df.columns |-> df.rows[i].cells[df.columns[j]]]

to_csv(df) ==
    [exists |-> TRUE, header |-> df.columns,
     rows |-> [i \in DOMAIN df.rows |->
                 [j \in DOMAIN df.columns |-> CsvField(CellsOf(df, i)[j])]]]

to_html(df) ==
    [header |-> df.columns,
     rows |-> [i \in DOMAIN df.rows |->
                 [j \in DOMAIN df.columns |-> HtmlField(CellsOf(df, i)[j])]]]

PreviewRows == 20

HeadShort(df) == [columns |-> df.columns, rows |-> SubSeq(df.rows, 1, Min2(Len(df.rows), 2))]

\* df.head(20)
head(df) ==
    [columns |-> df.columns, rows |-> SubSeq(df.rows, 1, Min2(Len(df.rows), PreviewRows))]

\* f"${x:,.2f}": dollars and cents
Money(x) == [k |-> "usd", cents |-> (x + 50000) \div 100000]

\* ndarray.mean() of a non-empty array
Mean(s) == SumSeq(s) \div Len(s)

(***************************************************************************)
(* Requests and uploaded files.                                            *)
(***************************************************************************)
Clients == {"a", "b"}

NoFrame == [columns |-> <<>>, rows |-> <<>>]

Unreadable == [readable |-> FALSE, df |-> NoFrame]

Table(df) == [readable |-> TRUE, df |-> df]

DefaultCell(col, i) ==
    CASE col = "Id" -> IntCell(1000 + i)
      [] col = "MSSubClass" -> IntCell(20 * (1 + (i % 4)))
      [] col = "LotArea" -> IntCell(8450 + i)
      [] col = "BsmtQual" -> StrCell(1 + (i % 2))
      [] col = "FireplaceQu" -> StrCell(3)
      [] col = "LotFrontage" -> IntCell(65)
      [] OTHER -> StrCell(9)

\* the frame pd.read_csv gives: RangeIndex labels 0..n-1; nas[i] are the
\* columns of row i whose field is empty
Frame(columns, nas) ==
    [columns |-> columns,
     rows |-> [i \in DOMAIN nas |->
                 [idx |-> i - 1,
                  cells |-> [c \in Range(columns) |->
                               IF c \in nas[i] THEN NA ELSE DefaultCell(c, i)]]]]

WithIdAndExtra ==
    <<"LotFrontage", "Extra", "LotArea", "Id", "FireplaceQu", "MSSubClass", "BsmtQual">>

WithoutLotArea == <<"Id", "MSSubClass", "BsmtQual", "FireplaceQu", "LotFrontage">>

WithoutMSSubClass == <<"LotArea", "BsmtQual", "FireplaceQu", "LotFrontage">>

WithoutBoth == <<"Id", "BsmtQual", "FireplaceQu", "LotFrontage", "Extra">>

NaPattern(p, n) ==
    [i \in 1..n |->
        CASE p = "clean" -> {}
          [] p = "expected" -> IF i % 2 = 1 THEN {"BsmtQual"}
                               ELSE {"FireplaceQu", "LotFrontage"}
          [] p = "some" -> IF i % 2 = 0 /\ i <= 4 THEN {"LotArea"}
                           ELSE IF i = 3 THEN {"LotFrontage", "Extra"} ELSE {}
          [] p = "every" -> {"MSSubClass"}]

Big == PreviewRows + ExtraRows

Uploads ==
    {Unreadable}
    \cup {Table(Frame(FEATURES, NaPattern("clean", n))) : n \in {0, 1, SomeRows, Big}}
    \cup {Table(Frame(FEATURES, NaPattern("expected", n))) : n \in {1, SomeRows}}
    \cup {Table(Frame(FEATURES, NaPattern("some", SomeRows)))}
    \cup {Table(Frame(FEATURES, NaPattern("every", n))) : n \in {1, SomeRows}}
    \cup {Table(Frame(WithIdAndExtra, NaPattern("some", SomeRows))),
          Table(Frame(WithIdAndExtra, NaPattern("clean", 1)))}
    \cup {Table(Frame(cols, NaPattern("clean", 1))) :
            cols \in {WithoutLotArea, WithoutMSSubClass, WithoutBoth}}

\* a file name as its stem and its extension; '' is the empty name
FileName(stem, ext) == [stem |-> stem, ext |-> ext]

\* filename.endswith('.csv')
EndsWithCsv(name) == name.ext = ".csv"

NoUpload == [hasFile |-> FALSE, filename |-> FileName("", ""), upload |-> Unreadable]

Upload(name, u) == [hasFile |-> TRUE, filename |-> name, upload |-> u]

SmallTable == Table(Frame(FEATURES, NaPattern("clean", 1)))

FormInputs ==
    {NoUpload}
    \cup {Upload(FileName("", ""), SmallTable),
          Upload(FileName("casas", ".txt"), SmallTable),
          Upload(FileName("casas", ".CSV"), SmallTable)}
    \cup {Upload(FileName("casas", ".csv"), u) : u \in Uploads}

\* the batches on which the pipeline is let to raise: one with rows, one
\* whose rows are all dropped, one without a required column
FailingUploads ==
    {SmallTable,
     Table(Frame(FEATURES, NaPattern("every", 1))),
     Table(Frame(WithoutLotArea, NaPattern("clean", 1)))}

Requests ==
    {[input |-> i, pipelineFails |-> FALSE] : i \in FormInputs}
    \cup {[input |-> Upload(FileName("casas", ".csv"), u), pipelineFails |-> TRUE] :
            u \in FailingUploads}

\* the requests sent to /api: the files of at most SomeRows rows
ApiRequests == {r \in Requests : Len(r.input.upload.df.rows) <= SomeRows}

(***************************************************************************)
(* The files the handlers share, and the responses.                        *)
(***************************************************************************)
\* df_resultado.to_csv('temp_results.csv', index=False)
ResultsFile == "temp_results.csv"

WrongDownloadFile == "predicciones_casas.csv"

\* send_file('temp_results.csv', ...)
DownloadFile == "temp_results.csv"

FileNames == {ResultsFile, DownloadFile}

NoFile == [exists |-> FALSE, header |-> <<>>, rows |-> <<>>]

NoDetail == [text |-> "", names |-> <<>>]

\* render_template("index.html", error=...)
IndexPage(text, detail) ==
    [kind |-> "index.html", status |-> 200, error |-> text, detail |-> detail]

\* jsonify({"error": ...}), status
JsonError(status, text, detail) ==
    [kind |-> "json", status |-> status, body |-> [error |-> text, detail |-> detail]]

\* pd.read_csv(file) followed by prediccion_o_inferencia(pipeline, df.copy())
ReadAndInfer(upload, pipelineFails) ==
    IF ~upload.readable THEN Raised(ParserError, FALSE)
    ELSE prediccion_o_inferencia(pipelineFails, upload.df)

\* df_resultado: the cleaned frame with the two prediction columns appended
df_resultado(r) ==
    LET withScaled ==
            SetColumn(r.datos, "Prediccion_Escalada",
                [i \in DOMAIN r.predicciones |-> FloatCell(r.predicciones[i] * 10000000)])
    IN  SetColumn(withScaled, "Precio_Predicho_USD",
            [i \in DOMAIN r.predicciones_sin_escalar |->
                FloatCell(r.predicciones_sin_escalar[i])])

\* .min() and .max() of the predictions raise on an empty array
StatsRaise(reales) == reales = <<>>

SaveBeforeStats(files, df) == [files EXCEPT ![ResultsFile] = to_csv(df)]

\* the files after the statistics raised: the result is written only after them
FilesAfterStatsRaise(files, df) == files

(***************************************************************************)
(* predict (src/app.py:55-113): the response, the files after the request  *)
(* and whether pipeline.predict was called.                                *)
(***************************************************************************)
predict(input, pipelineFails, files) ==
    IF ~input.hasFile
    THEN [resp |-> IndexPage("No se selecciono ningun archivo", NoDetail),
          files |-> files, called |-> FALSE, saved |-> NoFile]
    ELSE IF input.filename = FileName("", "")
    THEN [resp |-> IndexPage("No se selecciono ningun archivo", NoDetail),
          files |-> files, called |-> FALSE, saved |-> NoFile]
    ELSE IF ~EndsWithCsv(input.filename)
    THEN [resp |-> IndexPage("El archivo debe ser un CSV", NoDetail),
          files |-> files, called |-> FALSE, saved |-> NoFile]
    ELSE LET r == ReadAndInfer(input.upload, pipelineFails)
             res == df_resultado(r)
             reales == r.predicciones_sin_escalar
             csv == to_csv(res)
         IN  IF r.exc.type # "none"
             THEN [resp |-> IndexPage("Error procesando el archivo", StrOfExc(r.exc)),
                   files |-> files, called |-> r.invoked, saved |-> NoFile]
             ELSE IF StatsRaise(reales)
             THEN [resp |-> IndexPage("Error procesando el archivo",
                                      StrOfExc(ZeroSizeError)),
                   files |-> FilesAfterStatsRaise(files, res),
                   called |-> r.invoked, saved |-> NoFile]
             ELSE [resp |->
                     [kind |-> "results.html", status |-> 200,
                      tabla |-> to_html(head(res)),
                      stats |->
                        [total_registros |-> Len(r.predicciones),
                         precio_promedio |-> Money(Mean(reales)),
                         precio_minimo |-> Money(MinSeq(reales)),
                         precio_maximo |-> Money(MaxSeq(reales))],
                      total_rows |-> Len(res.rows)],
                   files |-> [files EXCEPT ![ResultsFile] = csv],
                   called |-> r.invoked, saved |-> csv]

(***************************************************************************)
(* download (src/app.py:116-127).                                          *)
(***************************************************************************)
ExistsAlways(files, name) == TRUE

\* send_file raises FileNotFoundError when the file is not there
Exists(files, name) == files[name].exists

download(files) ==
    IF Exists(files, DownloadFile)
    THEN [kind |-> "file", status |-> 200, mimetype |-> "text/csv",
          download_name |-> "predicciones_casas.csv", body |-> files[DownloadFile]]
    ELSE IndexPage("No hay resultados para descargar", NoDetail)

(***************************************************************************)
(* api (src/app.py:130-152).                                               *)
(***************************************************************************)
ApiCatchNoStatus(e) ==
    [kind |-> "json", status |-> 200,
     body |-> [error |-> "exception", detail |-> StrOfExc(e)]]

\* except Exception as e: return jsonify({"error": str(e)}), 500
ApiCatch(e) == JsonError(500, "exception", StrOfExc(e))

api(input, pipelineFails) ==
    IF ~input.hasFile
    THEN [resp |-> JsonError(400, "No file provided", NoDetail), called |-> FALSE]
    ELSE LET r == ReadAndInfer(input.upload, pipelineFails)
             reales == r.predicciones_sin_escalar
         IN  IF r.exc.type # "none"
             THEN [resp |-> ApiCatch(r.exc), called |-> r.invoked]
             ELSE IF StatsRaise(reales)
             THEN [resp |-> ApiCatch(ZeroSizeError), called |-> r.invoked]
             ELSE [resp |->
                     [kind |-> "json", status |-> 200,
                      body |-> [predicciones |-> reales,
                                total |-> Len(reales),
                                promedio |-> Mean(reales),
                                minimo |-> MinSeq(reales),
                                maximo |-> MaxSeq(reales)]],
                   called |-> r.invoked]

(***************************************************************************)
(* The service: clients send requests, each handled whole.                 *)
(***************************************************************************)
Idle == [kind |-> "idle", status |-> 0]

NoRequest == [client |-> "none", op |-> "none", input |-> NoUpload, pipelineFails |-> FALSE]

NoRun == [client |-> "none", file |-> NoFile]

NoCall == [st |-> "none"]

Init ==
    /\ fs = [f \in FileNames |-> NoFile]
    /\ req = NoRequest
    /\ resp = Idle
    /\ pipelineCalled = FALSE
    /\ hasRun = [c \in Clients |-> FALSE]
    /\ latest = NoRun
    /\ call = NoCall

Predict(c) ==
    \E r \in Requests :
        LET h == predict(r.input, r.pipelineFails, fs)
            ok == h.resp.kind = "results.html"
        IN  /\ req' = [client |-> c, op |-> "predict", input |-> r.input,
                       pipelineFails |-> r.pipelineFails]
            /\ resp' = h.resp
            /\ fs' = h.files
            /\ pipelineCalled' = h.called
            /\ hasRun' = IF ok THEN [hasRun EXCEPT ![c] = TRUE] ELSE hasRun
            /\ latest' = IF ok THEN [client |-> c, file |-> h.saved] ELSE latest
            /\ UNCHANGED call

Download(c) ==
    /\ req' = [client |-> c, op |-> "download", input |-> NoUpload,
               pipelineFails |-> FALSE]
    /\ resp' = download(fs)
    /\ pipelineCalled' = FALSE
    /\ UNCHANGED <<fs, hasRun, latest, call>>

Api(c) ==
    \E r \in ApiRequests :
        LET h == api(r.input, r.pipelineFails)
        IN  /\ req' = [client |-> c, op |-> "api", input |-> r.input,
                       pipelineFails |-> r.pipelineFails]
            /\ resp' = h.resp
            /\ pipelineCalled' = h.called
            /\ UNCHANGED <<fs, hasRun, latest, call>>

Next == \E c \in Clients : Predict(c) \/ Download(c) \/ Api(c)

Spec == Init /\ [][Next]_vars

(***************************************************************************)
(* prediccion_o_inferencia on its own: a call on an arbitrary record set.  *)
(***************************************************************************)
NaColumns == {"MSSubClass", "LotArea", "BsmtQual", "LotFrontage", "Extra"}

\* the empty fields of one row: at most two
NaSets == {m \in SUBSET NaColumns : Cardinality(m) <= 2}

Layouts ==
    {FEATURES, <<"Id">> \o FEATURES, WithIdAndExtra, WithoutLotArea, WithoutBoth}

RecordSets ==
    {Frame(cols, nas) :
        cols \in Layouts, nas \in UNION {[1..n -> NaSets] : n \in 0..MaxRows}}

NoResult == Raised(NoExc, FALSE)

InitInfer ==
    /\ fs = [f \in FileNames |-> NoFile]
    /\ req = NoRequest
    /\ resp = Idle
    /\ pipelineCalled = FALSE
    /\ hasRun = [c \in Clients |-> FALSE]
    /\ latest = NoRun
    /\ call \in {[st |-> "ready", datos_de_test |-> d, pipelineFails |-> b,
                  out |-> NoResult] : d \in RecordSets, b \in BOOLEAN}

Infer ==
    /\ call.st = "ready"
    /\ call' = [call EXCEPT !.st = "done",
                            !.out = prediccion_o_inferencia(call.pipelineFails,
                                                            call.datos_de_test)]
    /\ UNCHANGED <<fs, req, resp, pipelineCalled, hasRun, latest>>

NextInfer == Infer

SpecInfer == InitInfer /\ [][NextInfer]_vars

(***************************************************************************)
(* Properties of prediccion_o_inferencia, under SpecInfer.                 *)
(***************************************************************************)
HasAllFeatures(df) == Range(FEATURES) \subseteq Range(df.columns)

Returned == call.st = "done" /\ call.out.exc.type = "none"

\* C1: a record set holding every FEATURES column, with or without Id and
\* extra columns, is cleaned (whenever the pipeline does not raise) to a
\* record set whose columns are exactly FEATURES, in FEATURES order, every
\* row holding exactly those columns and none of them the identifier
CleanedHasExactlyFeatures ==
    (call.st = "done" /\ HasAllFeatures(call.datos_de_test) /\ ~call.pipelineFails)
        => /\ call.out.exc.type = "none"
           /\ call.out.datos.columns = FEATURES
           /\ "Id" \notin Range(call.out.datos.columns)
           /\ \A i \in DOMAIN call.out.datos.rows :
                DOMAIN call.out.datos.rows[i].cells = Range(FEATURES)

CleanedIdAndExtraDropped ==
    /\ Returned
    /\ call.datos_de_test.columns = WithIdAndExtra
    /\ Len(call.out.datos.rows) = 2
    /\ call.out.datos.columns = FEATURES

Unexpected == Range(FEATURES) \ Range(ExpectedNa)

\* a row with no missing value in a FEATURES column outside the expected-NA groups
Complete(row) == \A f \in Unexpected : ~IsNull(row.cells[f])

Labels(rows) == [i \in DOMAIN rows |-> rows[i].idx]

\* C2: the cleaned record set holds exactly the rows without a missing value
\* in a FEATURES column outside the three expected-NA groups, in their
\* original order, each with the missing values it had in the expected-NA
\* columns; so no row of it has a missing value outside those columns
OnlyCompleteRowsSurvive ==
    Returned =>
        /\ Labels(call.out.datos.rows)
             = Labels(SelectSeq(call.datos_de_test.rows, Complete))
        /\ \A i \in DOMAIN call.out.datos.rows :
             LET row == call.out.datos.rows[i]
                 raw == call.datos_de_test.rows[row.idx + 1]
             IN  /\ \A f \in Unexpected : ~IsNull(row.cells[f])
                 /\ \A f \in Range(FEATURES) : IsNull(row.cells[f]) = IsNull(raw.cells[f])

RowDroppedRowKept ==
    /\ Returned
    /\ Len(call.datos_de_test.rows) = 2
    /\ IsNull(call.datos_de_test.rows[1].cells["LotArea"])
    /\ IsNull(call.datos_de_test.rows[2].cells["BsmtQual"])
    /\ IsNull(call.datos_de_test.rows[2].cells["LotFrontage"])
    /\ Labels(call.out.datos.rows) = <<1>>

(***************************************************************************)
(* Properties of the service, under Spec.                                  *)
(***************************************************************************)
\* the request got as far as reading the uploaded file
Processed ==
    /\ req.op \in {"predict", "api"}
    /\ req.input.hasFile
    /\ req.op = "predict" => EndsWithCsv(req.input.filename)

Uploaded == req.input.upload.df

MissingFeatures == SelectSeq(FEATURES, LAMBDA f : f \notin Range(Uploaded.columns))

ErrorDetail == IF resp.kind = "json" THEN resp.body.detail ELSE resp.detail

IsError ==
    \/ resp.kind = "index.html"
    \/ resp.kind = "json" /\ "error" \in DOMAIN resp.body

\* C3: an upload lacking required FEATURES columns is rejected before
\* pipeline.predict is called, with an error that names the missing columns
MissingColumnsRejectedByName ==
    (Processed /\ req.input.upload.readable /\ MissingFeatures # <<>>)
        => /\ ~pipelineCalled
           /\ IsError
           /\ ErrorDetail.names = MissingFeatures

\* the rows of the upload that the missing-value filter keeps
Surviving == SelectSeq(Uploaded.rows, Complete)

\* C4: a request whose cleaned record set is empty ends without an error:
\* no predictions, a count of 0
EmptyCleanedSetIsNoError ==
    (Processed /\ req.input.upload.readable /\ MissingFeatures = <<>>
        /\ ~req.pipelineFails /\ Surviving = <<>>)
        => /\ ~IsError
           /\ req.op = "predict" => resp.stats.total_registros = 0
           /\ req.op = "api" => resp.body.total = 0 /\ resp.body.predicciones = <<>>

NoRunYet == \A c \in Clients : ~hasRun[c]

\* C5: a download requested while no Predict-and-render request has
\* succeeded yet ends in the 'no results' error page and carries no file
DownloadBeforeAnyRunFails ==
    (req.op = "download" /\ NoRunYet)
        => /\ resp = IndexPage("No hay resultados para descargar", NoDetail)
           /\ "body" \notin DOMAIN resp

DownloadRefused ==
    /\ req.op = "download"
    /\ NoRunYet
    /\ resp.kind = "index.html"

\* what to_html shows of a field of the CSV file
Shown(field) ==
    CASE field.k = "empty" -> [k |-> "NaN", v |-> 0]
      [] field.k = "float" -> [k |-> "float6", v |-> Round6(field.v)]
      [] OTHER -> field

ResultColumns == FEATURES \o <<"Prediccion_Escalada", "Precio_Predicho_USD">>

\* C6: a download that follows a successful Predict-and-render request
\* returns the full result set of that run, and the preview the run rendered
\* is its first 20 rows: same columns in the same order, same rows in the
\* same order
DownloadReproducesRun ==
    [][(req.op = "predict" /\ resp.kind = "results.html" /\ req'.op = "download")
        => /\ resp'.kind = "file"
           /\ resp'.body = latest.file
           /\ resp'.body.header = ResultColumns
           /\ Len(resp'.body.rows) = resp.total_rows
           /\ resp.tabla.header = resp'.body.header
           /\ Len(resp.tabla.rows) = Min2(PreviewRows, Len(resp'.body.rows))
           /\ \A i \in DOMAIN resp.tabla.rows :
                resp.tabla.rows[i]
                    = [j \in DOMAIN resp'.body.rows[i] |-> Shown(resp'.body.rows[i][j])]
      ]_vars

DownloadLongerThanPreview ==
    /\ req.op = "download"
    /\ resp.kind = "file"
    /\ latest.client = req.client
    /\ Len(resp.body.rows) > PreviewRows

\* C7: a Predict-via-API request ends in exactly one of: 400 with an error
\* payload when it carries no file, the pipeline not called; 500 with an
\* error message and no predictions when reading or processing fails; 200
\* with the predictions
ApiOutcomes ==
    req.op = "api" =>
        /\ resp.kind = "json"
        /\ resp.status \in {200, 400, 500}
        /\ resp.status = 400 <=> ~req.input.hasFile
        /\ resp.status = 400 => ~pipelineCalled /\ resp.body.error = "No file provided"
        /\ resp.status # 200 => DOMAIN resp.body = {"error", "detail"}
        /\ resp.status = 500 => resp.body.detail.text # ""
        /\ resp.status = 200 =>
             /\ DOMAIN resp.body = {"predicciones", "total", "promedio", "minimo", "maximo"}
             /\ pipelineCalled
             /\ req.input.upload.readable
             /\ ~req.pipelineFails
        /\ (req.input.hasFile /\ ~req.input.upload.readable) => resp.status = 500
        /\ (pipelineCalled /\ req.pipelineFails) => resp.status = 500

ApiPipelineFailure ==
    /\ req.op = "api"
    /\ pipelineCalled
    /\ req.pipelineFails
    /\ resp.status = 500

Succeeded ==
    \/ req.op = "predict" /\ resp.kind = "results.html"
    \/ req.op = "api" /\ resp.kind = "json" /\ resp.status = 200

\* C8: a successful prediction request reports as its count the number of
\* rows the missing-value filter keeps, and returns one prediction per kept
\* row, in row order
CountIsSurvivingRows ==
    Succeeded =>
        /\ req.op = "predict" =>
             /\ resp.stats.total_registros = Len(Surviving)
             /\ resp.total_rows = Len(Surviving)
             /\ Len(latest.file.rows) = Len(Surviving)
             /\ \A i \in DOMAIN Surviving :
                  latest.file.rows[i][Len(ResultColumns)]
                      = [k |-> "float", v |-> NpExp(Score(Surviving[i]))]
        /\ req.op = "api" =>
             /\ resp.body.total = Len(Surviving)
             /\ resp.body.predicciones
                  = [i \in DOMAIN Surviving |-> NpExp(Score(Surviving[i]))]

FiveUploadedThreeCounted ==
    /\ req.op = "predict"
    /\ resp.kind = "results.html"
    /\ Len(Uploaded.rows) = 5
    /\ Cardinality({i \in DOMAIN Uploaded.rows : IsNull(Uploaded.rows[i].cells["LotArea"])}) = 2
    /\ resp.stats.total_registros = 3

\* C9: the result file is one slot for every client: a download returns the
\* result set of the latest successful Predict-and-render request of any
\* client, also to a client whose own run was not the latest
DownloadServesLatestRunOfAnyClient ==
    req.op = "download" =>
        IF latest.client = "none" THEN resp.kind = "index.html"
        ELSE resp.kind = "file" /\ resp.body = latest.file

DownloadServesOtherClientsRun ==
    /\ req.op = "download"
    /\ hasRun[req.client]
    /\ latest.client \in Clients \ {req.client}
    /\ resp.kind = "file"
    /\ resp.body = latest.file

\* C10: the result file changes only in a Predict-and-render request that
\* ends in the results page; every other request leaves it as it was
ResultFileChangesOnlyOnSuccess ==
    [][(req'.op = "predict" /\ resp'.kind = "results.html") \/ fs' = fs]_vars

FailedRequestKeepsResultFile ==
    /\ req.op = "predict"
    /\ resp.kind = "index.html"
    /\ resp.detail = StrOfExc(ZeroSizeError)
    /\ fs[ResultsFile].exists

====
